---- MODULE Spec2Model ----
(***************************************************************************)
(* k-nearest-neighbours classifier with k-fold cross-validation            *)
(* (src/rusty_neighbors/src/main.rs).                                      *)
(*                                                                         *)
(* Every function of main.rs is an operator, computed the way the code     *)
(* computes it (loops become recursions over the loop index).  One run of  *)
(* the state machine is one call of one entry point: `op` names the entry  *)
(* point, Init draws its arguments, the actions perform the call.          *)
(*                                                                         *)
(* f64 values are fixed-point integers.  A Flower carries, besides the     *)
(* fields of the struct, a field `id` holding the index the record had in  *)
(* the argument vector; no operator reads it, `clone()` copies it, and the *)
(* properties use it to say which record a label or a fold entry came from.*)
(***************************************************************************)
EXTENDS Integers, Sequences, FiniteSets, TLC

VARIABLES
    op,             \* entry point called in this run
    pc,             \* "call", "loop" (evaluate_algorithm), "minmax", "done", "panic"
    dataset,        \* Vec<Flower> argument (train / dataset)
    test_row,       \* Flower argument of get_neighbors / predict_classification
    num_neighbors,  \* usize argument
    n_folds,        \* usize argument
    actual,         \* Vec<String>: argument of accuracy_metric, local of evaluate_algorithm
    predicted,      \* Vec<String>: argument of accuracy_metric, local of evaluate_algorithm
    folds,          \* evaluate_algorithm: let folds
    i,              \* evaluate_algorithm: loop index
    train_set,      \* evaluate_algorithm: let train_set (of the last round begun)
    test_set,       \* evaluate_algorithm: let test_set (of the last round begun)
    scores,         \* evaluate_algorithm: let mut scores
    distances,      \* get_neighbors: let mut distances, as it is when the labels are taken
    minmax,         \* return value of dataset_minmax
    ret             \* return value of the entry point

vars == <<op, pc, dataset, test_row, num_neighbors, n_folds, actual, predicted,
          folds, i, train_set, test_set, scores, distances, minmax, ret>>

-----------------------------------------------------------------------------
(* Bounds of the model *)

MaxTrain == 3      \* longest training vector handed to get_neighbors / predict_classification
MaxNeighbors == 3  \* largest num_neighbors handed to get_neighbors / predict_classification
MaxEvalNeighbors == 2  \* largest num_neighbors handed to evaluate_algorithm
MaxData == 4       \* longest dataset handed to evaluate_algorithm
MaxFolds == 3      \* largest n_folds
MaxLen == 3        \* longest label vector handed to accuracy_metric
MaxRows == 3       \* longest dataset handed to dataset_minmax
SqrtScale == 100   \* fixed point of distances: 1 / SqrtScale
FracScale == 1000  \* fixed point of quotients: 1 / FracScale

Labels == {"A", "B"}

\* Feature vectors (sepal_length, sepal_width, petal_length, petal_width).
Points == {<<0, 0, 0, 0>>, <<2, 0, 0, 0>>, <<0, 0, 0, 2>>, <<3, 3, 3, 3>>}
Queries == {<<1, 1, 1, 1>>, <<0, 0, 0, 0>>}
\* Feature vectors of the datasets handed to evaluate_algorithm.
EvalPoints == {<<0, 0, 0, 0>>, <<3, 3, 3, 3>>}
\* Feature vectors of the datasets handed to dataset_minmax.
ColumnPoints == {<<1, 5, 2, 7>>, <<3, 4, 2, 9>>, <<2, 6, 0, 8>>, <<0, 5, 1, 7>>}

-----------------------------------------------------------------------------
(* Values *)

Flower(p, c, n) ==
    [sepal_length |-> p[1], sepal_width |-> p[2], petal_length |-> p[3],
     petal_width |-> p[4], class |-> c, id |-> n]

\* A finite f64 with value v / FracScale (or v / SqrtScale for a distance).
Num(v) == [kind |-> "num", v |-> v]
NaN == [kind |-> "nan", v |-> 0]
\* +inf (s = 1) or -inf (s = -1)
Inf(s) == [kind |-> "inf", v |-> s]

\* A call that returned v, and a call that panicked.
Ok(v) == [ok |-> TRUE, val |-> v]
Panic == [ok |-> FALSE]

rowify(fl) == <<fl.sepal_length, fl.sepal_width, fl.petal_length, fl.petal_width>>

Reverse(s) == [j \in 1..Len(s) |-> s[Len(s) + 1 - j]]

-----------------------------------------------------------------------------
(* euclidean_distance *)

\* f64::sqrt in fixed point: the largest r in lo..hi with r * r <= n.
RECURSIVE ISqrtIn(_, _, _)
ISqrtIn(n, lo, hi) ==
    IF lo >= hi THEN lo
    ELSE LET mid == (lo + hi + 1) \div 2
         IN  IF mid * mid <= n THEN ISqrtIn(n, mid, hi) ELSE ISqrtIn(n, lo, mid - 1)

sqrt(n) == ISqrtIn(n * SqrtScale * SqrtScale, 0, 46340)

\* The while-let loop: distance += (m1 - m2).powi(2) over the measurements from j on.
RECURSIVE SumSquares(_, _, _)
SumSquares(m1, m2, j) ==
    IF j > Len(m1) THEN 0
    ELSE (m1[j] - m2[j]) * (m1[j] - m2[j]) + SumSquares(m1, m2, j + 1)

euclidean_distance(row1, row2) == sqrt(SumSquares(rowify(row1), rowify(row2), 1))

-----------------------------------------------------------------------------
(* get_neighbors *)

MeasuredFlower(d, fl) == [distance |-> d, class |-> fl.class, id |-> fl.id]

measure(train, row) ==
    [j \in 1..Len(train) |-> MeasuredFlower(euclidean_distance(row, train[j]), train[j])]

\* A comparator that also answers Greater for equal distances (>= for >).
CmpGreaterOrEqual(a, b) == b.distance >= a.distance

\* The comparator |a, b| b.distance.partial_cmp(&a.distance): Greater, i.e. a is
\* to be placed after b, exactly when b.distance > a.distance.
CmpGreater(a, b) == b.distance > a.distance

\* Vec::sort_by is a stable sort: x, which came after every element of the sorted
\* prefix s, goes behind all elements it does not have to precede.
RECURSIVE InsertStable(_, _)
InsertStable(s, x) ==
    IF s = <<>> THEN <<x>>
    ELSE LET last == s[Len(s)]
         IN  IF CmpGreater(last, x)
             THEN Append(InsertStable(SubSeq(s, 1, Len(s) - 1), x), last)
             ELSE Append(s, x)

RECURSIVE sort_by(_)
sort_by(s) ==
    IF s = <<>> THEN <<>>
    ELSE InsertStable(sort_by(SubSeq(s, 1, Len(s) - 1)), s[Len(s)])

\* distances after sort_by alone, the reverse of line 66 left out.
sorted_unreversed(train, row) == sort_by(measure(train, row))

\* distances after sort_by and reverse (lines 58-66)
sorted_distances(train, row) == Reverse(sort_by(measure(train, row)))

\* Taking at most the records there are (distances.iter().take(k)), which never
\* panics.
take_truncated(ds, k) ==
    Ok([j \in 1..(IF k > Len(ds) THEN Len(ds) ELSE k) |-> ds[j]])

\* Lines 69-74: distances[i] for i in 0..num_neighbors; the index panics when
\* i >= distances.len().
take_neighbors(ds, k) ==
    IF k > Len(ds) THEN Panic
    ELSE Ok([j \in 1..k |-> ds[j]])

\* The MeasuredFlowers whose classes get_neighbors returns, in order.
ranked_neighbors(train, row, k) == take_neighbors(sorted_distances(train, row), k)

get_neighbors(train, row, k) ==
    LET r == ranked_neighbors(train, row, k)
    IN  IF r.ok THEN Ok([j \in 1..Len(r.val) |-> r.val[j].class]) ELSE Panic

-----------------------------------------------------------------------------
(* predict_classification *)

\* let mut m: HashMap<String, usize>; *m.entry(x).or_default() += 1
RECURSIVE count_entries(_, _)
count_entries(neighbors, m) ==
    IF neighbors = <<>> THEN m
    ELSE LET x == Head(neighbors)
             c == IF x \in DOMAIN m THEN m[x] ELSE 0
         IN  count_entries(Tail(neighbors),
                           [y \in DOMAIN m \cup {x} |-> IF y = x THEN c + 1 ELSE m[y]])

EmptyMap == [x \in {} |-> 0]

\* HashMap::into_iter: the entries in some order the hasher picks.
IterationOrders(m) ==
    {o \in [1..Cardinality(DOMAIN m) -> DOMAIN m] :
        \A a, b \in 1..Cardinality(DOMAIN m) : a # b => o[a] # o[b]}

\* Iterator::min_by_key(|(_, v)| *v): the first entry with the minimum count.
RECURSIVE min_by_key(_, _, _)
min_by_key(m, o, best) ==
    IF o = <<>> THEN best
    ELSE min_by_key(m, Tail(o), IF m[Head(o)] < m[best] THEN Head(o) ELSE best)

\* Iterator::max_by_key(|(_, v)| *v): the last entry with the maximum count.
RECURSIVE max_by_key(_, _, _)
max_by_key(m, o, best) ==
    IF o = <<>> THEN best
    ELSE max_by_key(m, Tail(o), IF m[Head(o)] >= m[best] THEN Head(o) ELSE best)

\* Every result the call can have: one per iteration order of the map; None.unwrap()
\* panics on an empty map.
predict_classification(train, row, k) ==
    LET neighbors == get_neighbors(train, row, k)
    IN  IF ~neighbors.ok THEN {Panic}
        ELSE LET m == count_entries(neighbors.val, EmptyMap)
             IN  IF DOMAIN m = {} THEN {Panic}
                 ELSE {Ok(max_by_key(m, Tail(o), Head(o))) : o \in IterationOrders(m)}

-----------------------------------------------------------------------------
(* k_nearest_neighbors *)

\* predictions.push(output) after the pushes of the rows before; a panic of either
\* is a panic of the call.
push_prediction(h, r) ==
    IF h.ok /\ r.ok THEN Ok(<<h.val>> \o r.val) ELSE Panic

\* Every result the call can have (one prediction per row of test, in order).
RECURSIVE k_nearest_neighbors(_, _, _)
k_nearest_neighbors(train, test, k) ==
    IF test = <<>> THEN {Ok(<<>>)}
    ELSE {push_prediction(h, r) :
            h \in predict_classification(train, Head(test), k),
            r \in k_nearest_neighbors(train, Tail(test), k)}

-----------------------------------------------------------------------------
(* accuracy_metric *)

\* f64 division of the integers a and b (b >= 0), as a quotient in fixed point.
fdiv(a, b) ==
    IF b = 0 THEN (IF a = 0 THEN NaN ELSE Inf(IF a > 0 THEN 1 ELSE -1))
    ELSE Num((a * FracScale) \div b)

\* x left as a fraction of 1 (the factor 100.0 left out).
times1(x) == x

\* x * 100.0
times100(x) == IF x.kind = "num" THEN Num(x.v * 100) ELSE x

\* The loop of lines 121-125 from index j on (1-based); predicted[i] panics when
\* predicted is shorter than actual.
RECURSIVE count_correct(_, _, _)
count_correct(act, pred, j) ==
    IF j > Len(act) THEN Ok(0)
    ELSE IF j > Len(pred) THEN Panic
    ELSE LET r == count_correct(act, pred, j + 1)
         IN  IF ~r.ok THEN Panic
             ELSE Ok(r.val + (IF act[j] = pred[j] THEN 1 ELSE 0))

accuracy_metric(act, pred) ==
    LET correct == count_correct(act, pred, 1)
    IN  IF ~correct.ok THEN Panic
        ELSE Ok(times100(fdiv(correct.val, Len(act))))

-----------------------------------------------------------------------------
(* cross_validation_split *)

\* for _x in 0..n_folds { splits.push(Vec::new()) }
empty_splits(n) == [f \in 1..n |-> <<>>]

\* The loop with the fold taken one too far: (i + 1) % n_folds.
RECURSIVE split_loop_shifted(_, _, _, _)
split_loop_shifted(data, n, j, splits) ==
    IF j >= Len(data) THEN Ok(splits)
    ELSE IF n = 0 THEN Panic
    ELSE LET fold == (j + 1) % n
         IN  split_loop_shifted(data, n, j + 1,
                                [splits EXCEPT ![fold + 1] = Append(@, data[j + 1])])

\* The loop of lines 136-139 from index j on (0-based, as in the code); i % n_folds
\* panics when n_folds is 0.
RECURSIVE split_loop(_, _, _, _)
split_loop(data, n, j, splits) ==
    IF j >= Len(data) THEN Ok(splits)
    ELSE IF n = 0 THEN Panic
    ELSE LET fold == j % n
         IN  split_loop(data, n, j + 1,
                        [splits EXCEPT ![fold + 1] = Append(@, data[j + 1])])

cross_validation_split(data, n) == split_loop(data, n, 0, empty_splits(n))

-----------------------------------------------------------------------------
(* evaluate_algorithm *)

\* Vec::remove(i), i 0-based and in range
remove(v, j) == SubSeq(v, 1, j) \o SubSeq(v, j + 2, Len(v))

RECURSIVE concat(_)
concat(vs) == IF vs = <<>> THEN <<>> ELSE Head(vs) \o concat(Tail(vs))

\* The training set with fold 0 removed in every round (remove(0) for remove(i)).
round_train_set_first(fs, j) == concat(remove(fs, 0))

\* let mut train_set = folds.clone(); train_set.remove(i); train_set.concat()
round_train_set(fs, j) == concat(remove(fs, j))

\* test_set.iter().map(|x| x.class.clone()).collect()
classes(rows) == [j \in 1..Len(rows) |-> rows[j].class]

-----------------------------------------------------------------------------
(* dataset_minmax, normalize_dataset *)

\* The body of the inner loop (lines 165-173) for column c (1-based) and record j
\* (1-based): min and max start again from record 0 on every iteration.
minmax_pair(data, c, j) ==
    LET first == rowify(data[1])[c]
        value == rowify(data[j])[c]
    IN  IF value < first THEN <<value, first>>
        ELSE IF value > first THEN <<first, value>>
        ELSE <<first, first>>

\* The two loops: one push per column and record.
RECURSIVE minmax_loop(_, _, _, _)
minmax_loop(data, c, j, out) ==
    IF c > 4 THEN out
    ELSE IF j > Len(data) THEN minmax_loop(data, c + 1, 1, out)
    ELSE minmax_loop(data, c, j + 1, Append(out, minmax_pair(data, c, j)))

\* dataset[0] panics on an empty dataset.
dataset_minmax(data) ==
    IF data = <<>> THEN Panic ELSE Ok(minmax_loop(data, 1, 1, <<>>))

\* (x - min) / (max - min)
rescale(x, mm) == fdiv(x - mm[1], mm[2] - mm[1])

\* minmax[c] panics when minmax holds fewer than 4 pairs and there is a record.
normalize_dataset(data, mm) ==
    IF data # <<>> /\ Len(mm) < 4 THEN Panic
    ELSE Ok([j \in 1..Len(data) |->
                [data[j] EXCEPT !.sepal_length = rescale(@, mm[1]),
                                !.sepal_width = rescale(@, mm[2]),
                                !.petal_length = rescale(@, mm[3]),
                                !.petal_width = rescale(@, mm[4])]])

-----------------------------------------------------------------------------
(* Arguments *)

\* The vectors of n Flowers over the feature vectors P; record j has id j - 1.
Datasets(P, n) ==
    {[j \in 1..n |-> Flower(ps[j], cs[j], j - 1)] : ps \in [1..n -> P], cs \in [1..n -> Labels]}

LabelVecs(n) == [1..n -> Labels]

\* The scenario of the specification, in tenths: three "A" at (0,0,0,0), three "B"
\* at (10,10,10,10), the query (0.1,0.1,0.1,0.1), k = 3.
ScenarioTrain ==
    [j \in 1..6 |-> IF j <= 3 THEN Flower(<<0, 0, 0, 0>>, "A", j - 1)
                    ELSE Flower(<<100, 100, 100, 100>>, "B", j - 1)]
ScenarioQuery == Flower(<<1, 1, 1, 1>>, "A", 0)

Nothing == <<>>

InitKnn ==
    /\ op \in {"get_neighbors", "predict_classification"}
    /\ pc = "call"
    /\ \/ /\ \E n \in 0..MaxTrain : dataset \in Datasets(Points, n)
          /\ \E q \in Queries : test_row = Flower(q, "A", 0)
          /\ num_neighbors \in 0..MaxNeighbors
       \/ /\ dataset = ScenarioTrain
          /\ test_row = ScenarioQuery
          /\ num_neighbors = 3
    /\ n_folds = 0 /\ i = 0
    /\ actual = Nothing /\ predicted = Nothing /\ folds = Nothing /\ train_set = Nothing
    /\ test_set = Nothing /\ scores = Nothing /\ distances = Nothing /\ minmax = Nothing
    /\ ret = Nothing

InitEvaluate ==
    /\ op = "evaluate_algorithm"
    /\ pc = "call"
    /\ \E n \in 0..MaxData : dataset \in Datasets(EvalPoints, n)
    /\ n_folds \in 0..MaxFolds
    /\ num_neighbors \in 0..MaxEvalNeighbors
    /\ i = 0
    /\ test_row = Nothing /\ actual = Nothing /\ predicted = Nothing /\ folds = Nothing
    /\ train_set = Nothing /\ test_set = Nothing /\ scores = Nothing /\ distances = Nothing
    /\ minmax = Nothing /\ ret = Nothing

InitAccuracy ==
    /\ op = "accuracy_metric"
    /\ pc = "call"
    /\ \E n \in 0..MaxLen : actual \in LabelVecs(n)
    /\ \E n \in 0..MaxLen : predicted \in LabelVecs(n)
    /\ n_folds = 0 /\ num_neighbors = 0 /\ i = 0
    /\ dataset = Nothing /\ test_row = Nothing /\ folds = Nothing /\ train_set = Nothing
    /\ test_set = Nothing /\ scores = Nothing /\ distances = Nothing /\ minmax = Nothing
    /\ ret = Nothing

InitNormalize ==
    /\ op = "normalize"
    /\ pc = "call"
    /\ \E n \in 0..MaxRows :
          dataset \in {[j \in 1..n |-> Flower(ps[j], "A", j - 1)] : ps \in [1..n -> ColumnPoints]}
    /\ n_folds = 0 /\ num_neighbors = 0 /\ i = 0
    /\ test_row = Nothing /\ actual = Nothing /\ predicted = Nothing /\ folds = Nothing
    /\ train_set = Nothing /\ test_set = Nothing /\ scores = Nothing /\ distances = Nothing
    /\ minmax = Nothing /\ ret = Nothing

Init == InitKnn \/ InitEvaluate \/ InitAccuracy \/ InitNormalize

-----------------------------------------------------------------------------
(* Actions *)

Outcome(r) == IF r.ok THEN "done" ELSE "panic"

\* get_neighbors(&dataset, &test_row, num_neighbors)
CallGetNeighbors ==
    /\ op = "get_neighbors" /\ pc = "call"
    /\ distances' = sorted_distances(dataset, test_row)
    /\ ret' = get_neighbors(dataset, test_row, num_neighbors)
    /\ pc' = Outcome(ret')
    /\ UNCHANGED <<op, dataset, test_row, num_neighbors, n_folds, actual, predicted,
                   folds, i, train_set, test_set, scores, minmax>>

\* predict_classification(&dataset, &test_row, num_neighbors)
CallPredictClassification ==
    /\ op = "predict_classification" /\ pc = "call"
    /\ distances' = sorted_distances(dataset, test_row)
    /\ ret' \in predict_classification(dataset, test_row, num_neighbors)
    /\ pc' = Outcome(ret')
    /\ UNCHANGED <<op, dataset, test_row, num_neighbors, n_folds, actual, predicted,
                   folds, i, train_set, test_set, scores, minmax>>

\* accuracy_metric(actual, predicted)
CallAccuracyMetric ==
    /\ op = "accuracy_metric" /\ pc = "call"
    /\ ret' = accuracy_metric(actual, predicted)
    /\ pc' = Outcome(ret')
    /\ UNCHANGED <<op, dataset, test_row, num_neighbors, n_folds, actual, predicted,
                   folds, i, train_set, test_set, scores, distances, minmax>>

\* evaluate_algorithm, lines 146-147: the split and the empty score vector
EvaluateSplit ==
    /\ op = "evaluate_algorithm" /\ pc = "call"
    /\ LET r == cross_validation_split(dataset, n_folds)
       IN  IF r.ok
           THEN /\ folds' = r.val
                /\ pc' = "loop"
                /\ ret' = ret
           ELSE /\ folds' = folds
                /\ pc' = "panic"
                /\ ret' = Panic
    /\ scores' = <<>>
    /\ i' = 0
    /\ UNCHANGED <<op, dataset, test_row, num_neighbors, n_folds, actual, predicted,
                   train_set, test_set, distances, minmax>>

\* evaluate_algorithm, lines 148-156: one iteration of the loop, with
\* k_nearest_neighbors as the algorithm (line 196)
EvaluateRound ==
    /\ op = "evaluate_algorithm" /\ pc = "loop" /\ i < Len(folds)
    /\ train_set' = round_train_set(folds, i)
    /\ test_set' = folds[i + 1]
    /\ \E p \in k_nearest_neighbors(train_set', test_set', num_neighbors) :
          IF ~p.ok
          THEN /\ pc' = "panic"
               /\ ret' = Panic
               /\ UNCHANGED <<predicted, actual, scores, i>>
          ELSE /\ predicted' = p.val
               /\ actual' = classes(test_set')
               /\ LET score == accuracy_metric(actual', predicted')
                  IN  IF score.ok
                      THEN /\ scores' = Append(scores, score.val)
                           /\ i' = i + 1
                           /\ pc' = "loop"
                           /\ ret' = ret
                      ELSE /\ pc' = "panic"
                           /\ ret' = Panic
                           /\ UNCHANGED <<scores, i>>
    /\ UNCHANGED <<op, dataset, test_row, num_neighbors, n_folds, folds, distances, minmax>>

\* evaluate_algorithm, line 157
EvaluateReturn ==
    /\ op = "evaluate_algorithm" /\ pc = "loop" /\ i = Len(folds)
    /\ ret' = Ok(scores)
    /\ pc' = "done"
    /\ UNCHANGED <<op, dataset, test_row, num_neighbors, n_folds, actual, predicted,
                   folds, i, train_set, test_set, scores, distances, minmax>>

\* let minmax = dataset_minmax(dataset.clone())
CallDatasetMinmax ==
    /\ op = "normalize" /\ pc = "call"
    /\ LET r == dataset_minmax(dataset)
       IN  IF r.ok
           THEN /\ minmax' = r.val
                /\ pc' = "minmax"
                /\ ret' = ret
           ELSE /\ minmax' = minmax
                /\ pc' = "panic"
                /\ ret' = Panic
    /\ UNCHANGED <<op, dataset, test_row, num_neighbors, n_folds, actual, predicted,
                   folds, i, train_set, test_set, scores, distances>>

\* normalize_dataset(&mut dataset, minmax): the dataset is rewritten in place
CallNormalizeDataset ==
    /\ op = "normalize" /\ pc = "minmax"
    /\ LET r == normalize_dataset(dataset, minmax)
       IN  IF r.ok
           THEN /\ dataset' = r.val
                /\ pc' = "done"
                /\ ret' = Ok(<<>>)
           ELSE /\ dataset' = dataset
                /\ pc' = "panic"
                /\ ret' = Panic
    /\ UNCHANGED <<op, test_row, num_neighbors, n_folds, actual, predicted,
                   folds, i, train_set, test_set, scores, distances, minmax>>

Next ==
    \/ CallGetNeighbors
    \/ CallPredictClassification
    \/ CallAccuracyMetric
    \/ EvaluateSplit
    \/ EvaluateRound
    \/ EvaluateReturn
    \/ CallDatasetMinmax
    \/ CallNormalizeDataset

Spec == Init /\ [][Next]_vars

-----------------------------------------------------------------------------
(* Properties *)

Occurrences(x, s) == Cardinality({j \in 1..Len(s) : s[j] = x})

Injective(f) == \A a, b \in DOMAIN f : a # b => f[a] # f[b]

\* Distance of training record r (1-based) of the dataset argument to the query.
DistanceTo(r) == euclidean_distance(test_row, dataset[r])

\* C1: for 1 <= k <= |train|, predict_classification returns (never panics) and the
\* label it returns occurs among the k labels of get_neighbors(train, query, k) at
\* least as often as every other label; in the scenario of the specification the
\* result is "A".
C1_MajorityVote ==
    (op = "predict_classification" /\ pc # "call"
        /\ 1 <= num_neighbors /\ num_neighbors <= Len(dataset)) =>
    /\ pc = "done" /\ ret.ok
    /\ LET neighbors == get_neighbors(dataset, test_row, num_neighbors).val
       IN  /\ Occurrences(ret.val, neighbors) >= 1
           /\ \A x \in Labels : Occurrences(ret.val, neighbors) >= Occurrences(x, neighbors)
    /\ (dataset = ScenarioTrain /\ test_row = ScenarioQuery) => ret.val = "A"

\* C1 witness: the scenario has been classified as "A".
C1_Witness ==
    /\ op = "predict_classification" /\ pc = "done"
    /\ dataset = ScenarioTrain /\ test_row = ScenarioQuery /\ num_neighbors = 3
    /\ ret.val = "A"

\* C2: for k <= |train|, get_neighbors returns exactly k labels; they are the labels
\* of k distinct training records listed in non-decreasing distance to the query, and
\* no record left out is strictly closer to the query than a selected one.
C2_KClosest ==
    (op = "get_neighbors" /\ pc # "call" /\ num_neighbors <= Len(dataset)) =>
    /\ pc = "done" /\ ret.ok
    /\ Len(ret.val) = num_neighbors
    /\ \E idx \in [1..num_neighbors -> 1..Len(dataset)] :
          /\ Injective(idx)
          /\ \A j \in 1..num_neighbors : ret.val[j] = dataset[idx[j]].class
          /\ \A j \in 1..(num_neighbors - 1) : DistanceTo(idx[j]) <= DistanceTo(idx[j + 1])
          /\ \A r \in 1..Len(dataset) :
                (\A j \in 1..num_neighbors : idx[j] # r) =>
                    \A j \in 1..num_neighbors : DistanceTo(r) >= DistanceTo(idx[j])

\* C2 witness: two of three records at three different distances were selected, the
\* first record of the input being the farthest and left out.
C2_Witness ==
    /\ op = "get_neighbors" /\ pc = "done"
    /\ Len(dataset) = 3 /\ num_neighbors = 2
    /\ DistanceTo(1) > DistanceTo(2) /\ DistanceTo(2) > DistanceTo(3)
    /\ dataset[3].class = "A" /\ dataset[2].class = "B" /\ dataset[1].class = "A"
    /\ ret.val = <<"A", "B">>

\* The ranking get_neighbors takes its labels from holds every training record once,
\* with its distance to the query.
RankingOfTrain ==
    /\ Len(distances) = Len(dataset)
    /\ \A r \in 1..Len(dataset) :
          \E a \in 1..Len(distances) :
             /\ distances[a].id = r - 1
             /\ distances[a].class = dataset[r].class
             /\ distances[a].distance = DistanceTo(r)

\* C7 as claimed: records at exactly equal distance keep their input order in the
\* ranking (the earlier record of the input is ranked first).
C7_TiesKeepInputOrder ==
    (op = "get_neighbors" /\ pc # "call") =>
    \A a, b \in 1..Len(distances) :
        (a < b /\ distances[a].distance = distances[b].distance) =>
            distances[a].id < distances[b].id

\* C7 as amended: records at exactly equal distance are ranked in the reverse of
\* their input order (the later record of the input first), and the labels returned
\* are those of the first k records of that ranking.
C7_TiesReverseInputOrder ==
    (op = "get_neighbors" /\ pc # "call") =>
    /\ RankingOfTrain
    /\ \A a, b \in 1..Len(distances) :
          (a < b /\ distances[a].distance = distances[b].distance) =>
              distances[a].id > distances[b].id
    /\ pc = "done" =>
          /\ Len(ret.val) = num_neighbors
          /\ \A j \in 1..num_neighbors : ret.val[j] = distances[j].class

\* C7 witness: of two equidistant records of different classes only one fits in the
\* result, and it is the later one of the input.
C7_Witness ==
    /\ op = "get_neighbors" /\ pc = "done"
    /\ Len(dataset) = 2 /\ num_neighbors = 1
    /\ DistanceTo(1) = DistanceTo(2)
    /\ dataset[1].class = "A" /\ dataset[2].class = "B"
    /\ ret.val = <<"B">>

\* A round of evaluate_algorithm has begun, and its number (0-based).
RoundBegun ==
    /\ op = "evaluate_algorithm"
    /\ \/ pc \in {"loop", "done"} /\ i >= 1
       \/ pc = "panic" /\ Len(folds) >= 1
LastRound == IF pc = "panic" THEN i ELSE i - 1

\* C10: get_neighbors with k > |train| panics and returns no list, and so does
\* predict_classification; a round of evaluate_algorithm that classifies a record
\* against a training set of fewer than k records panics and pushes no score.
C10_TooManyNeighborsPanics ==
    /\ (op \in {"get_neighbors", "predict_classification"} /\ pc # "call"
           /\ num_neighbors > Len(dataset)) =>
          (pc = "panic" /\ ~ret.ok)
    /\ (RoundBegun /\ test_set # <<>> /\ num_neighbors > Len(train_set)) =>
          (pc = "panic" /\ ~ret.ok /\ Len(scores) = LastRound)

\* C10 witness: get_neighbors was asked for more neighbours than the non-empty
\* training set holds, and panicked.
C10_Witness ==
    /\ op = "get_neighbors" /\ pc = "panic"
    /\ Len(dataset) >= 1 /\ num_neighbors = Len(dataset) + 1

\* Where the record of original index r (0-based) is among the folds.
PlacesOf(r) ==
    {<<f, j>> \in (1..Len(folds)) \X (1..MaxData + 1) :
        j <= Len(folds[f]) /\ folds[f][j].id = r}

RECURSIVE SumLen(_)
SumLen(vs) == IF vs = <<>> THEN 0 ELSE Len(Head(vs)) + SumLen(Tail(vs))

\* C3: for 1 <= n_folds <= |dataset|, cross_validation_split returns n_folds folds;
\* the record of original index r is in fold r mod n_folds and nowhere else, the
\* folds together hold as many records as the dataset, and every fold has
\* floor(|dataset| / n_folds) or ceil(|dataset| / n_folds) records.
C3_RoundRobinFolds ==
    (op = "evaluate_algorithm" /\ pc # "call"
        /\ 1 <= n_folds /\ n_folds <= Len(dataset)) =>
    /\ Len(folds) = n_folds
    /\ \A r \in 0..(Len(dataset) - 1) :
          /\ Cardinality(PlacesOf(r)) = 1
          /\ \A pl \in PlacesOf(r) :
                /\ pl[1] = (r % n_folds) + 1
                /\ folds[pl[1]][pl[2]] = dataset[r + 1]
    /\ SumLen(folds) = Len(dataset)
    /\ \A f \in 1..n_folds :
          Len(folds[f]) \in {Len(dataset) \div n_folds,
                             (Len(dataset) + n_folds - 1) \div n_folds}

\* C3 witness: four records were split into three folds, of sizes 2, 1 and 1.
C3_Witness ==
    /\ op = "evaluate_algorithm" /\ pc = "loop" /\ i = 0
    /\ Len(dataset) = 4 /\ n_folds = 3
    /\ Len(folds[1]) = 2 /\ Len(folds[2]) = 1 /\ Len(folds[3]) = 1
    /\ folds[1][2].id = 3

Ids(rows) == {rows[j].id : j \in 1..Len(rows)}

Matches(act, pred) == Cardinality({j \in 1..Len(act) : act[j] = pred[j]})

\* x is the f64 100 * m / n, n > 0, up to the rounding of the quotient.
IsPercentage(x, m, n) ==
    /\ x.kind = "num"
    /\ x.v * n <= 100 * m * FracScale
    /\ 100 * m * FracScale < (x.v + 100) * n

\* C4: when evaluate_algorithm returns, it returns n_folds scores; in round r the
\* test set is fold r and the training set is the concatenation of the other folds
\* in fold order, so that no record is in both and together they hold the whole
\* dataset; every test record is classified against that training set, and a round
\* that completes pushes score r, the accuracy of its predictions against the
\* labels of fold r.
C4_HeldOutFold ==
    /\ (op = "evaluate_algorithm" /\ pc = "done") =>
          (ret.ok /\ Len(ret.val) = n_folds /\ ret.val = scores)
    /\ RoundBegun =>
          LET r == LastRound + 1
              others == [f \in 1..(Len(folds) - 1) |-> folds[IF f < r THEN f ELSE f + 1]]
          IN  /\ test_set = folds[r]
              /\ train_set = concat(others)
              /\ Ids(test_set) \cap Ids(train_set) = {}
              /\ Ids(test_set) \cup Ids(train_set) = Ids(dataset)
              /\ Len(test_set) + Len(train_set) = Len(dataset)
              /\ pc # "panic" =>
                    /\ Len(scores) = r
                    /\ actual = classes(test_set)
                    /\ Len(predicted) = Len(test_set)
                    /\ \A j \in 1..Len(test_set) :
                          Ok(predicted[j]) \in
                              predict_classification(train_set, test_set[j], num_neighbors)
                    /\ IF test_set = <<>> THEN scores[r] = NaN
                       ELSE IsPercentage(scores[r], Matches(actual, predicted), Len(test_set))

\* C4 witness: a 3-fold evaluation of four records returned three scores, the first
\* of them neither 0 nor 100.
C4_Witness ==
    /\ op = "evaluate_algorithm" /\ pc = "done"
    /\ Len(dataset) = 4 /\ n_folds = 3
    /\ Len(ret.val) = 3
    /\ ret.val[1].kind = "num" /\ ret.val[1].v > 0 /\ ret.val[1].v < 100 * FracScale
    /\ Len(train_set) = 3 /\ Len(test_set) = 1

\* C8: with n_folds = 1 and a non-empty dataset the single round trains and tests on
\* the same fold and a score is pushed.
C8_SingleFoldTrainsOnItself ==
    (RoundBegun /\ n_folds = 1 /\ Len(dataset) >= 1) =>
    /\ test_set = folds[1]
    /\ train_set = folds[1]
    /\ pc # "panic"
    /\ Len(scores) = 1

\* What C5 says of a result: in [0, 100], 100 iff every position matches, 0 iff none
\* does.
AccuracyInBounds ==
    /\ pc = "done" /\ ret.ok
    /\ ret.val.kind = "num"
    /\ 0 <= ret.val.v /\ ret.val.v <= 100 * FracScale
    /\ ret.val.v = 100 * FracScale <=> Matches(actual, predicted) = Len(actual)
    /\ ret.val.v = 0 <=> Matches(actual, predicted) = 0

\* C5 as claimed: for all actual and predicted of equal length the accuracy is in
\* [0, 100], is 100 iff every position matches and 0 iff none does.
C5_AccuracyBounds ==
    (op = "accuracy_metric" /\ pc # "call" /\ Len(actual) = Len(predicted)) =>
    AccuracyInBounds

\* C5 as amended: for all non-empty actual and predicted of equal length the
\* accuracy is in [0, 100], is 100 iff every position matches and 0 iff none does,
\* and is 100 * matches / length.
C5_AccuracyBoundsNonEmpty ==
    (op = "accuracy_metric" /\ pc # "call" /\ Len(actual) = Len(predicted)
        /\ Len(actual) >= 1) =>
    /\ AccuracyInBounds
    /\ IsPercentage(ret.val, Matches(actual, predicted), Len(actual))

\* C5 witness: of three predictions some match and some do not, and the accuracy is
\* strictly between 0 and 100.
C5_Witness ==
    /\ op = "accuracy_metric" /\ pc = "done"
    /\ Len(actual) = 3 /\ Len(predicted) = 3
    /\ Matches(actual, predicted) = 2
    /\ ret.val.kind = "num" /\ ret.val.v > 0 /\ ret.val.v < 100 * FracScale

\* C9: accuracy_metric called with sequences of different lengths panics and returns
\* no score, whichever of the two is the longer.
C9_LengthMismatchPanics ==
    (op = "accuracy_metric" /\ pc # "call" /\ Len(actual) # Len(predicted)) =>
    (pc = "panic" /\ ~ret.ok)

ColumnValues(c) == {rowify(dataset[j])[c] : j \in 1..Len(dataset)}
ColumnMin(c) == CHOOSE x \in ColumnValues(c) : \A y \in ColumnValues(c) : x <= y
ColumnMax(c) == CHOOSE x \in ColumnValues(c) : \A y \in ColumnValues(c) : x >= y

\* C6: for a non-empty dataset, dataset_minmax returns exactly 4 pairs, pair c being
\* the minimum and the maximum of feature column c over all records.
C6_MinmaxPerColumn ==
    (op = "normalize" /\ pc = "minmax" /\ Len(dataset) >= 1) =>
    /\ Len(minmax) = 4
    /\ \A c \in 1..4 : minmax[c] = <<ColumnMin(c), ColumnMax(c)>>

====
